---- MODULE Spec2Model ----
(***************************************************************************)
(* Model of pyhap/_camera.py: the CameraAccessory stream-session state     *)
(* machine (set_endpoints, set_selected_stream_configuration,              *)
(* _start_stream, _stop_stream, _run) over the session store, the spawned  *)
(* ffmpeg processes and the published characteristics.                     *)
(*                                                                         *)
(* Byte strings are sequences over 0..255.  A decoded TLV message (the     *)
(* dict tlv.decode returns) is a function from type bytes to values; a     *)
(* nested block is again such a function, a leaf is a byte string.         *)
(***************************************************************************)
EXTENDS Integers, Sequences, FiniteSets, TLC

VARIABLES
    sessions,          \* self.sessions: session id -> record
    streaming_status,  \* self.streaming_status (one byte)
    status_char,       \* value of the StreamingStatus characteristic
    selected_config,   \* self.selected_config
    setup_endpoints,   \* value of the SetupEndpoints characteristic
    support_srtp,      \* self.support_srtp
    procs,             \* every subprocess.Popen made so far: handle -> [session_id, kills]
    raised,            \* the exception that escaped the last handler, or NoException
    logged,            \* the logger.error message of the last handler, or NoLog
    popen_cmd,         \* the command the last handler gave to subprocess.Popen, or NoCmd
    threads,           \* positions of the handlers that run interleaved (SpecConc)
    audio_params,      \* options['audio']
    video_params,      \* options['video']
    supported_audio_config,   \* self.supported_audio_config
    supported_video_config,   \* self.supported_video_config
    warnings           \* the logger.warning messages so far, in order

\* What __init__ derives from the options; no handler assigns it afterwards.
capabilities ==
    <<audio_params, video_params, supported_audio_config, supported_video_config,
      warnings>>

vars == <<sessions, streaming_status, status_char, selected_config, setup_endpoints,
          support_srtp, procs, raised, logged, popen_cmd, threads, audio_params,
          video_params, supported_audio_config, supported_video_config, warnings>>

----------------------------------------------------------------------------
(* Bounds of the model *)

\* The number of processes the model lets the accessory spawn.
MaxSpawns == 2

\* The longest list of codec entries in options['audio'].
MaxCodecs == 2

\* The longest list of resolutions in options['video'].
MaxResolutions == 2

----------------------------------------------------------------------------
(* Type tables of the module *)

SETUP_TYPES ==
    [SESSION_ID |-> 1, STATUS |-> 2, ADDRESS |-> 3, VIDEO_SRTP_PARAM |-> 4,
     AUDIO_SRTP_PARAM |-> 5, VIDEO_SSRC |-> 6, AUDIO_SSRC |-> 7]

SETUP_STATUS == [SUCCESS |-> 0, BUSY |-> 1, ERROR |-> 2]

SETUP_ADDR_INFO ==
    [ADDRESS_VER |-> 1, ADDRESS |-> 2, VIDEO_RTP_PORT |-> 3, AUDIO_RTP_PORT |-> 4]

SETUP_SRTP_PARAM == [CRYPTO |-> 1, MASTER_KEY |-> 2, MASTER_SALT |-> 3]

STREAMING_STATUS == [AVAILABLE |-> 0, STREAMING |-> 1, BUSY |-> 2]

SRTP_CRYPTO_SUITES ==
    [AES_CM_128_HMAC_SHA1_80 |-> 0, AES_CM_256_HMAC_SHA1_80 |-> 1, NONE |-> 2]

VIDEO_TYPES == [CODEC |-> 1, CODEC_PARAM |-> 2, ATTRIBUTES |-> 3, RTP_PARAM |-> 4]

VIDEO_CODEC_PARAM_TYPES ==
    [PROFILE_ID |-> 1, LEVEL |-> 2, PACKETIZATION_MODE |-> 3, CVO_ENABLED |-> 4,
     CVO_ID |-> 5]

VIDEO_ATTRIBUTES_TYPES == [IMAGE_WIDTH |-> 1, IMAGE_HEIGHT |-> 2, FRAME_RATE |-> 3]

SELECTED_STREAM_CONFIGURATION_TYPES == [SESSION |-> 1, VIDEO |-> 2, AUDIO |-> 3]

RTP_PARAM_TYPES ==
    [PAYLOAD_TYPE |-> 1, SYNCHRONIZATION_SOURCE |-> 2, MAX_BIT_RATE |-> 3,
     RTCP_SEND_INTERVAL |-> 4, MAX_MTU |-> 5, COMFORT_NOISE_PAYLOAD_TYPE |-> 6]

AUDIO_TYPES == [CODEC |-> 1, CODEC_PARAM |-> 2, RTP_PARAM |-> 3, COMFORT_NOISE |-> 4]

AUDIO_CODEC_PARAM_TYPES ==
    [CHANNEL |-> 1, BIT_RATE |-> 2, SAMPLE_RATE |-> 3, PACKET_TIME |-> 4]

VIDEO_CODEC_TYPES == [H264 |-> 0]

VIDEO_CODEC_PARAM_PACKETIZATION_MODE_TYPES == [NON_INTERLEAVED |-> 0]

AUDIO_CODEC_TYPES == [PCMU |-> 0, PCMA |-> 1, AACELD |-> 2, OPUS |-> 3]

\* The keys of the source in mixed case: in upper case they are reserved words.
AUDIO_CODEC_PARAM_BIT_RATE_TYPES == [Variable |-> 0, Constant |-> 1]

AUDIO_CODEC_PARAM_SAMPLE_RATE_TYPES == [KHZ_8 |-> 0, KHZ_16 |-> 1, KHZ_24 |-> 2]

\* The sub-field types of the session block of a selected-configuration request.
SESSION_BLOCK_TYPES == [SESSION_ID |-> 1, REQUEST_TYPE |-> 2]

NO_SRTP == <<1, 1, 2, 2, 0, 3, 0>>

----------------------------------------------------------------------------
(* Python values *)

None == <<>>            \* None and the empty byte string are both falsy
NoException == "none"
NoLog == "none"
NoCmd == <<>>
NoProcess == 0          \* a record without the 'process' key

\* dict.get(key) followed by a truth test: the key is there and its value is not empty.
Truthy(objs, key) == key \in DOMAIN objs /\ objs[key] # None

\* struct.unpack('<H', b)[0] and struct.pack('<H', v)
UnpackH(b) == b[1] + 256 * b[2]
PackH(v) == <<v % 256, (v \div 256) % 256>>

\* struct.unpack('<B', b)[0]
UnpackB(b) == b[1]

\* x or default
Or(x, default) == IF x = 0 THEN default ELSE x

Min(a, b) == IF a < b THEN a ELSE b

\* The first exception of a sequence of evaluation steps, in evaluation order.
RECURSIVE FirstException(_)
FirstException(steps) ==
    IF steps = <<>> THEN NoException
    ELSE IF Head(steps) # NoException THEN Head(steps)
    ELSE FirstException(Tail(steps))

----------------------------------------------------------------------------
(* pyhap.tlv.encode and pyhap.util.toBase64Str *)

\* One (type, value) pair: [type][length][value], a value longer than 255 bytes
\* split into 255-byte chunks of the same type.
RECURSIVE TlvEncodeOne(_, _)
TlvEncodeOne(type, value) ==
    IF Len(value) <= 255 THEN <<type, Len(value)>> \o value
    ELSE <<type, 255>> \o SubSeq(value, 1, 255)
         \o TlvEncodeOne(type, SubSeq(value, 256, Len(value)))

\* tlv.encode(t1, v1, t2, v2, ...): the pairs' encodings in order.
RECURSIVE TlvEncode(_)
TlvEncode(pairs) ==
    IF pairs = <<>> THEN <<>>
    ELSE TlvEncodeOne(Head(pairs)[1], Head(pairs)[2]) \o TlvEncode(Tail(pairs))

\* Base64 of a byte string, as the sequence of its 6-bit digits (0..63), with
\* the digit 64 for the padding character '='.
ToBase64Str(bytes) ==
    LET n == Len(bytes)
        byte(i) == IF i <= n THEN bytes[i] ELSE 0
        digit(j) ==
            LET g == (j - 1) \div 4
                p == (j - 1) % 4
                b0 == byte(3 * g + 1)
                b1 == byte(3 * g + 2)
                b2 == byte(3 * g + 3)
            IN  CASE p = 0 -> b0 \div 4
                  [] p = 1 -> (b0 % 4) * 16 + (b1 \div 16)
                  [] p = 2 -> IF 3 * g + 2 > n THEN 64
                              ELSE (b1 % 16) * 4 + (b2 \div 64)
                  [] p = 3 -> IF 3 * g + 3 > n THEN 64 ELSE b2 % 64
    IN  [j \in 1..(4 * ((n + 2) \div 3)) |-> digit(j)]

----------------------------------------------------------------------------
(* The accessory's configuration (options of __init__) *)

\* options['address'], an IPv4 address: "10.0.0.7"
stream_address == <<49, 48, 46, 48, 46, 48, 46, 55>>

\* ipaddress.IPv4Address(stream_address) succeeds: b'\x00'
stream_address_isv6 == <<0>>

\* _get_streaimg_status
GetStreamingStatus(status) == ToBase64Str(TlvEncode(<<<<1, <<status>>>>>>))

----------------------------------------------------------------------------
(* get_supported_video_stream_config and get_supported_audio_stream_config *)

\* Lines 230-232 and 234-236: codec_params_tlv += tlv.encode(type, value) for
\* each value of the list.
RECURSIVE EncodeEach(_, _)
EncodeEach(type, values) ==
    IF values = <<>> THEN <<>>
    ELSE TlvEncode(<<<<type, Head(values)>>>>) \o EncodeEach(type, Tail(values))

\* Lines 240-244: the attributes block of one resolution.
ResolutionTlv(resolution) ==
    LET res_tlv == TlvEncode(<<
            <<VIDEO_ATTRIBUTES_TYPES.IMAGE_WIDTH, PackH(resolution[1])>>,
            <<VIDEO_ATTRIBUTES_TYPES.IMAGE_HEIGHT, PackH(resolution[2])>>,
            <<VIDEO_ATTRIBUTES_TYPES.FRAME_RATE, PackH(resolution[3])>> >>)
    IN  TlvEncode(<<<<VIDEO_TYPES.ATTRIBUTES, res_tlv>>>>)

\* Lines 238-244: attr_tlv, the blocks of the resolutions in order.
RECURSIVE AttrTlv(_)
AttrTlv(resolutions) ==
    IF resolutions = <<>> THEN <<>>
    ELSE ResolutionTlv(Head(resolutions)) \o AttrTlv(Tail(resolutions))

\* get_supported_video_stream_config(video_params)
GetSupportedVideoStreamConfig(params) ==
    LET codec_params_tlv ==
            TlvEncode(<<<<VIDEO_CODEC_PARAM_TYPES.PACKETIZATION_MODE,
                          <<VIDEO_CODEC_PARAM_PACKETIZATION_MODE_TYPES.NON_INTERLEAVED>>>>>>)
            \o EncodeEach(VIDEO_CODEC_PARAM_TYPES.PROFILE_ID, params.codec.profiles)
            \o EncodeEach(VIDEO_CODEC_PARAM_TYPES.LEVEL, params.codec.levels)
        config_tlv == TlvEncode(<<
            <<VIDEO_TYPES.CODEC, <<VIDEO_CODEC_TYPES.H264>>>>,
            <<VIDEO_TYPES.CODEC_PARAM, codec_params_tlv>> >>)
    IN  ToBase64Str(TlvEncode(<<<<1, config_tlv \o AttrTlv(params.resolutions)>>>>))

\* Lines 265-275: the codec byte of a codec kind, None for a kind that is skipped.
AudioCodecOf(param_type) ==
    CASE param_type = "OPUS" -> <<AUDIO_CODEC_TYPES.OPUS>>
      [] param_type = "AAC-eld" -> <<AUDIO_CODEC_TYPES.AACELD>>
      [] OTHER -> None

\* Lines 277-286: the sample rate byte, None for a rate that is skipped.
AudioSampleRateOf(param_samplerate) ==
    CASE param_samplerate = 8 -> <<AUDIO_CODEC_PARAM_SAMPLE_RATE_TYPES.KHZ_8>>
      [] param_samplerate = 16 -> <<AUDIO_CODEC_PARAM_SAMPLE_RATE_TYPES.KHZ_16>>
      [] param_samplerate = 24 -> <<AUDIO_CODEC_PARAM_SAMPLE_RATE_TYPES.KHZ_24>>
      [] OTHER -> None

\* Lines 288-293 and 302-310: one codec entry of the blob.
AudioCodecConfig(codec, bitrate, samplerate) ==
    LET param_tlv == TlvEncode(<<
            <<AUDIO_CODEC_PARAM_TYPES.CHANNEL, <<1>>>>,
            <<AUDIO_CODEC_PARAM_TYPES.BIT_RATE, bitrate>>,
            <<AUDIO_CODEC_PARAM_TYPES.SAMPLE_RATE, samplerate>> >>)
        config_tlv == TlvEncode(<<
            <<AUDIO_TYPES.CODEC, codec>>,
            <<AUDIO_TYPES.CODEC_PARAM, param_tlv>> >>)
    IN  TlvEncode(<<<<1, config_tlv>>>>)

\* The state of the function before its loop (lines 261-262).
NoCodecs == [has_supported_codec |-> FALSE, configs |-> <<>>, warnings |-> <<>>]

\* Lines 264-293: one iteration of the loop over audio_params['codecs'].
AudioCodecStep(acc, codec_param) ==
    LET codec == AudioCodecOf(codec_param.type)
        samplerate == AudioSampleRateOf(codec_param.samplerate)
        bitrate == <<AUDIO_CODEC_PARAM_BIT_RATE_TYPES.Variable>>
    IN  IF codec = None
        THEN [acc EXCEPT !.warnings =
                    Append(@, <<"Unsupported codec %s", codec_param.type>>)]
        ELSE IF samplerate = None
        THEN [acc EXCEPT !.has_supported_codec = TRUE,
                         !.warnings =
                    Append(@, <<"Unsupported sample rate %s", codec_param.samplerate>>)]
        ELSE [acc EXCEPT !.has_supported_codec = TRUE,
                         !.configs = @ \o AudioCodecConfig(codec, bitrate, samplerate)]

\* Lines 263-293: the loop.
RECURSIVE AudioCodecLoop(_, _)
AudioCodecLoop(acc, codecs) ==
    IF codecs = <<>> THEN acc
    ELSE AudioCodecLoop(AudioCodecStep(acc, Head(codecs)), Tail(codecs))

\* A variant of FallbackConfig with the 16 kHz sample rate.
FallbackConfigKhz16 ==
    AudioCodecConfig(<<AUDIO_CODEC_TYPES.OPUS>>,
                     <<AUDIO_CODEC_PARAM_BIT_RATE_TYPES.Variable>>,
                     <<AUDIO_CODEC_PARAM_SAMPLE_RATE_TYPES.KHZ_16>>)

\* Lines 298-310: the entry advertised when no codec kind was supported.
FallbackConfig ==
    AudioCodecConfig(<<AUDIO_CODEC_TYPES.OPUS>>,
                     <<AUDIO_CODEC_PARAM_BIT_RATE_TYPES.Variable>>,
                     <<AUDIO_CODEC_PARAM_SAMPLE_RATE_TYPES.KHZ_24>>)

\* get_supported_audio_stream_config(audio_params): the blob it returns and
\* the warnings it logs.
GetSupportedAudioStreamConfig(params) ==
    LET loop == AudioCodecLoop(NoCodecs, params.codecs)
        configs == IF loop.has_supported_codec THEN loop.configs ELSE FallbackConfig
        comfort_noise ==
            IF "comfort_noise" \in DOMAIN params /\ params.comfort_noise
            THEN <<1>> ELSE <<0>>
    IN  [config |-> ToBase64Str(configs \o TlvEncode(<<<<2, comfort_noise>>>>)),
         warnings |->
            IF loop.has_supported_codec THEN loop.warnings
            ELSE Append(loop.warnings,
                        <<"Client does not support any audio codec that iOS supports.">>)]

----------------------------------------------------------------------------
(* The process table *)

Handles == 1..Len(procs)

\* The processes of the table spawned for session id sid on which kill was
\* never called.
LiveProcesses(table, sid) ==
    {h \in 1..Len(table) : table[h].session_id = sid /\ table[h].kills = 0}

\* subprocess.Popen(cmd) returning a new handle
Popen(table, session_id) == Append(table, [session_id |-> session_id, kills |-> 0])

\* Popen.kill()
Kill(table, handle) == [table EXCEPT ![handle].kills = @ + 1]

----------------------------------------------------------------------------
(* _start_stream: parsing the request (lines 387-456) *)

\* struct.unpack(fmt, b) of a byte string whose length is not the format's.
StructException(b, size) == IF Len(b) = size THEN NoException ELSE "struct.error"

\* Lines 393-398: profile id and level are indexed when the block is there.
CodecParamException(video_objs) ==
    IF ~Truthy(video_objs, VIDEO_TYPES.CODEC_PARAM) THEN NoException
    ELSE IF {VIDEO_CODEC_PARAM_TYPES.PROFILE_ID, VIDEO_CODEC_PARAM_TYPES.LEVEL}
              \subseteq DOMAIN video_objs[VIDEO_TYPES.CODEC_PARAM]
         THEN NoException
         ELSE "KeyError"

\* Lines 400-408: width, height and frame rate are indexed and unpacked.
AttributesException(video_objs) ==
    IF ~Truthy(video_objs, VIDEO_TYPES.ATTRIBUTES) THEN NoException
    ELSE LET attrs == video_objs[VIDEO_TYPES.ATTRIBUTES]
             A == VIDEO_ATTRIBUTES_TYPES
         IN  IF A.IMAGE_WIDTH \notin DOMAIN attrs THEN "KeyError"
             ELSE IF StructException(attrs[A.IMAGE_WIDTH], 2) # NoException
                  THEN "struct.error"
             ELSE IF A.IMAGE_HEIGHT \notin DOMAIN attrs THEN "KeyError"
             ELSE IF StructException(attrs[A.IMAGE_HEIGHT], 2) # NoException
                  THEN "struct.error"
             ELSE IF A.FRAME_RATE \notin DOMAIN attrs THEN "KeyError"
             ELSE StructException(attrs[A.FRAME_RATE], 1)

\* Lines 410-423: struct.unpack('<H', None) when the max bit rate is missing.
RtpParamException(video_objs) ==
    IF ~Truthy(video_objs, VIDEO_TYPES.RTP_PARAM) THEN NoException
    ELSE LET rtp == video_objs[VIDEO_TYPES.RTP_PARAM]
         IN  IF RTP_PARAM_TYPES.MAX_BIT_RATE \notin DOMAIN rtp THEN "TypeError"
             ELSE StructException(rtp[RTP_PARAM_TYPES.MAX_BIT_RATE], 2)

\* Lines 390-423
VideoException(objs) ==
    IF ~Truthy(objs, SELECTED_STREAM_CONFIGURATION_TYPES.VIDEO) THEN NoException
    ELSE LET video_objs == objs[SELECTED_STREAM_CONFIGURATION_TYPES.VIDEO]
         IN  FirstException(<<CodecParamException(video_objs),
                              AttributesException(video_objs),
                              RtpParamException(video_objs)>>)

\* Lines 425-448: every audio field is indexed when the audio block is there.
AudioException(objs) ==
    IF ~Truthy(objs, SELECTED_STREAM_CONFIGURATION_TYPES.AUDIO) THEN NoException
    ELSE LET audio_objs == objs[SELECTED_STREAM_CONFIGURATION_TYPES.AUDIO]
             C == AUDIO_CODEC_PARAM_TYPES
             R == RTP_PARAM_TYPES
         IN  IF ~({AUDIO_TYPES.CODEC, AUDIO_TYPES.CODEC_PARAM, AUDIO_TYPES.RTP_PARAM,
                   AUDIO_TYPES.COMFORT_NOISE} \subseteq DOMAIN audio_objs)
             THEN "KeyError"
             ELSE IF ~({C.CHANNEL, C.BIT_RATE, C.SAMPLE_RATE, C.PACKET_TIME}
                        \subseteq DOMAIN audio_objs[AUDIO_TYPES.CODEC_PARAM])
             THEN "KeyError"
             ELSE IF ~({R.SYNCHRONIZATION_SOURCE, R.PAYLOAD_TYPE, R.MAX_BIT_RATE,
                        R.RTCP_SEND_INTERVAL, R.COMFORT_NOISE_PAYLOAD_TYPE}
                        \subseteq DOMAIN audio_objs[AUDIO_TYPES.RTP_PARAM])
             THEN "KeyError"
             ELSE NoException

\* The names bound by lines 403-408 and 414-420 when the request parses.
BoundLocals(objs) ==
    LET S == SELECTED_STREAM_CONFIGURATION_TYPES
        has_video == Truthy(objs, S.VIDEO)
    IN  (IF has_video /\ Truthy(objs[S.VIDEO], VIDEO_TYPES.ATTRIBUTES)
         THEN {"width", "height", "fps"} ELSE {})
        \cup
        (IF has_video /\ Truthy(objs[S.VIDEO], VIDEO_TYPES.RTP_PARAM)
         THEN {"video_ssrc", "video_max_bitrate"} ELSE {})

\* The values of the bound names.
Locals(objs) ==
    LET video_objs == objs[SELECTED_STREAM_CONFIGURATION_TYPES.VIDEO]
        attrs == video_objs[VIDEO_TYPES.ATTRIBUTES]
        rtp == video_objs[VIDEO_TYPES.RTP_PARAM]
    IN  [name \in BoundLocals(objs) |->
            CASE name = "width" -> UnpackH(attrs[VIDEO_ATTRIBUTES_TYPES.IMAGE_WIDTH])
              [] name = "height" -> UnpackH(attrs[VIDEO_ATTRIBUTES_TYPES.IMAGE_HEIGHT])
              [] name = "fps" -> UnpackB(attrs[VIDEO_ATTRIBUTES_TYPES.FRAME_RATE])
              [] name = "video_ssrc" -> 1
              [] name = "video_max_bitrate" ->
                    UnpackH(rtp[RTP_PARAM_TYPES.MAX_BIT_RATE])]

\* Lines 450-451: the session id of a request whose session block has one.
RequestSessionIdOf(objs) ==
    objs[SELECTED_STREAM_CONFIGURATION_TYPES.SESSION][SESSION_BLOCK_TYPES.SESSION_ID]

\* Lines 450-452: the session id sub-field and the store lookup.
SessionLookupException(objs, store) ==
    LET session_objs == objs[SELECTED_STREAM_CONFIGURATION_TYPES.SESSION]
    IN  IF SESSION_BLOCK_TYPES.SESSION_ID \notin DOMAIN session_objs THEN "KeyError"
        ELSE IF session_objs[SESSION_BLOCK_TYPES.SESSION_ID] \notin DOMAIN store
             THEN "KeyError"
        ELSE NoException

\* Lines 453-456 and 464 read width, height, video_max_bitrate, fps and video_ssrc.
UnboundLocalException(objs) ==
    IF {"width", "height", "video_max_bitrate", "fps", "video_ssrc"}
         \subseteq BoundLocals(objs)
    THEN NoException
    ELSE "UnboundLocalError"

\* The exception that ends _start_stream before line 472, if any.
StartException(objs, store) ==
    FirstException(<<VideoException(objs), AudioException(objs),
                     SessionLookupException(objs, store),
                     UnboundLocalException(objs)>>)

\* Lines 453-455: width or 1280, height or 720, video_max_bitrate or 300
EffectiveWidth(locals) == Or(locals["width"], 1280)
EffectiveHeight(locals) == Or(locals["height"], 720)
EffectiveBitrate(locals) == Or(locals["video_max_bitrate"], 300)

\* Line 456: min(fps, 30)
EffectiveFps(locals) == Min(locals["fps"], 30)

\* Lines 458-470 with the FFMPEG_CMD template (lines 196-202): the fields the
\* template has, filled in.  The template fixes the frame rate and the ssrc and
\* has no place for fps, video_ssrc or camera_source.
FfmpegCmd(session_info, locals) ==
    [width |-> EffectiveWidth(locals),
     height |-> EffectiveHeight(locals),
     framerate |-> 20,
     ssrc |-> 1,
     bitrate |-> EffectiveBitrate(locals),
     video_srtp_key |->
        ToBase64Str(session_info.video_srtp_key \o session_info.video_srtp_salt),
     address |-> session_info.address,
     video_port |-> session_info.video_port,
     local_video_port |-> session_info.video_port]

\* A variant of AttachProcess that writes the handle into every record of the
\* store instead of the addressed one.
AttachToEveryRecord(store, session_id, handle) ==
    [s \in DOMAIN store |-> [store[s] EXCEPT !.process = handle]]

\* A variant of AttachProcess that drops the handle instead of storing it.
AttachNothing(store, session_id, handle) == store

\* Line 474, the assignment: self.sessions[session_id]['process'] = handle
AttachProcess(store, session_id, handle) ==
    [store EXCEPT ![session_id].process = handle]

----------------------------------------------------------------------------
(* _start_stream, _stop_stream and set_selected_stream_configuration, each *)
(* run to completion                                                       *)

\* A variant of StartStream that sets and publishes the status before the
\* spawn instead of after it.
StartStreamStatusFirst(objs, reconfigure, popen_ok) ==
    LET exception == StartException(objs, sessions)
        session_id == RequestSessionIdOf(objs)
        cmd == FfmpegCmd(sessions[session_id], Locals(objs))
    IN  IF exception # NoException
        THEN /\ raised' = exception
             /\ popen_cmd' = NoCmd
             /\ UNCHANGED <<sessions, procs, streaming_status, status_char>>
        ELSE /\ streaming_status' = STREAMING_STATUS.STREAMING
             /\ status_char' = GetStreamingStatus(STREAMING_STATUS.STREAMING)
             /\ popen_cmd' = cmd
             /\ IF ~popen_ok
                THEN /\ raised' = "OSError"
                     /\ UNCHANGED <<sessions, procs>>
                ELSE /\ Len(procs) < MaxSpawns
                     /\ procs' = Popen(procs, session_id)
                     /\ sessions' = AttachProcess(sessions, session_id, Len(procs) + 1)
                     /\ raised' = NoException

\* _start_stream(objs, reconfigure): the code does not read reconfigure.
\* popen_ok is the environment's answer to subprocess.Popen: FALSE is an OSError.
StartStream(objs, reconfigure, popen_ok) ==
    LET exception == StartException(objs, sessions)
        session_id == RequestSessionIdOf(objs)
        cmd == FfmpegCmd(sessions[session_id], Locals(objs))
    IN  IF exception # NoException
        THEN /\ raised' = exception
             /\ popen_cmd' = NoCmd
             /\ UNCHANGED <<sessions, procs, streaming_status, status_char>>
        ELSE IF ~popen_ok
        THEN /\ raised' = "OSError"
             /\ popen_cmd' = cmd
             /\ UNCHANGED <<sessions, procs, streaming_status, status_char>>
        ELSE /\ Len(procs) < MaxSpawns
             /\ procs' = Popen(procs, session_id)
             /\ sessions' = AttachProcess(sessions, session_id, Len(procs) + 1)
             /\ streaming_status' = STREAMING_STATUS.STREAMING
             /\ status_char' = GetStreamingStatus(STREAMING_STATUS.STREAMING)
             /\ raised' = NoException
             /\ popen_cmd' = cmd

\* A variant of Pop that reads the record and leaves it in the store
\* (sessions.get in place of sessions.pop).
PopKeeps(store, session_id) == store

\* self.sessions.pop(session_id)
Pop(store, session_id) == [s \in DOMAIN store \ {session_id} |-> store[s]]

\* _stop_stream(objs).  (self.session_id is None from __init__ on and is only
\* ever assigned None.)
StopStream(objs) ==
    LET session_objs == objs[SELECTED_STREAM_CONFIGURATION_TYPES.SESSION]
        session_id == session_objs[SESSION_BLOCK_TYPES.SESSION_ID]
        ffmpeg_process == sessions[session_id].process
    IN  /\ popen_cmd' = NoCmd
        /\ UNCHANGED <<streaming_status, status_char>>
        /\ IF \/ SESSION_BLOCK_TYPES.SESSION_ID \notin DOMAIN session_objs
              \/ session_id \notin DOMAIN sessions
           THEN /\ raised' = "KeyError"
                /\ UNCHANGED <<sessions, procs>>
           ELSE /\ raised' = NoException
                /\ sessions' = Pop(sessions, session_id)
                /\ procs' = IF ffmpeg_process # NoProcess
                            THEN Kill(procs, ffmpeg_process)
                            ELSE procs

\* A variant of Dispatch whose last branch is the stop branch (else in place
\* of elif request_type == 0).
DispatchStopsByDefault(request_type) ==
    CASE request_type = 1 -> "start"
      [] request_type = 4 -> "reconfigure"
      [] OTHER -> "stop"

\* Lines 506-513: the branch a request type takes.
Dispatch(request_type) ==
    CASE request_type = 1 -> "start"
      [] request_type = 0 -> "stop"
      [] request_type = 4 -> "reconfigure"
      [] OTHER -> "unknown"

\* set_selected_stream_configuration(value)
SetSelectedStreamConfiguration(value, popen_ok) ==
    LET S == SELECTED_STREAM_CONFIGURATION_TYPES
        session == value[S.SESSION]
        request_type == session[SESSION_BLOCK_TYPES.REQUEST_TYPE][1]
        Fails(exception) ==
            /\ raised' = exception
            /\ logged' = NoLog
            /\ popen_cmd' = NoCmd
            /\ UNCHANGED <<sessions, procs, streaming_status, status_char>>
        Logs(message) ==
            /\ raised' = NoException
            /\ logged' = message
            /\ popen_cmd' = NoCmd
            /\ UNCHANGED <<sessions, procs, streaming_status, status_char>>
    IN  /\ selected_config' = value
        /\ UNCHANGED <<setup_endpoints, support_srtp, threads, capabilities>>
        /\ IF S.SESSION \notin DOMAIN value
           THEN Logs("Bad request to set selected stream configuration.")
           ELSE IF SESSION_BLOCK_TYPES.REQUEST_TYPE \notin DOMAIN session
           THEN Fails("KeyError")
           ELSE IF session[SESSION_BLOCK_TYPES.REQUEST_TYPE] = <<>>
           THEN Fails("IndexError")
           ELSE CASE Dispatch(request_type) = "start" ->
                        logged' = NoLog /\ StartStream(value, FALSE, popen_ok)
                  [] Dispatch(request_type) = "stop" ->
                        logged' = NoLog /\ StopStream(value)
                  [] Dispatch(request_type) = "reconfigure" ->
                        logged' = NoLog /\ StartStream(value, TRUE, popen_ok)
                  [] OTHER -> Logs("Unknown request type")

----------------------------------------------------------------------------
(* set_endpoints and _run *)

\* Lines 520-545: every field of the request is indexed; ports are unpacked.
SetupException(objs) ==
    LET T == SETUP_TYPES
        A == SETUP_ADDR_INFO
        P == SETUP_SRTP_PARAM
        AddressException(info) ==
            IF A.ADDRESS_VER \notin DOMAIN info THEN "KeyError"
            ELSE IF info[A.ADDRESS_VER] = <<>> THEN "IndexError"
            ELSE IF A.ADDRESS \notin DOMAIN info THEN "KeyError"
            ELSE IF A.VIDEO_RTP_PORT \notin DOMAIN info THEN "KeyError"
            ELSE IF StructException(info[A.VIDEO_RTP_PORT], 2) # NoException
                 THEN "struct.error"
            ELSE IF A.AUDIO_RTP_PORT \notin DOMAIN info THEN "KeyError"
            ELSE StructException(info[A.AUDIO_RTP_PORT], 2)
        SrtpException(info) ==
            IF P.CRYPTO \notin DOMAIN info THEN "KeyError"
            ELSE IF info[P.CRYPTO] = <<>> THEN "IndexError"
            ELSE IF {P.MASTER_KEY, P.MASTER_SALT} \subseteq DOMAIN info
                 THEN NoException
            ELSE "KeyError"
    IN  IF T.SESSION_ID \notin DOMAIN objs THEN "KeyError"
        ELSE IF T.ADDRESS \notin DOMAIN objs THEN "KeyError"
        ELSE IF AddressException(objs[T.ADDRESS]) # NoException
             THEN AddressException(objs[T.ADDRESS])
        ELSE IF T.VIDEO_SRTP_PARAM \notin DOMAIN objs THEN "KeyError"
        ELSE IF SrtpException(objs[T.VIDEO_SRTP_PARAM]) # NoException
             THEN SrtpException(objs[T.VIDEO_SRTP_PARAM])
        ELSE IF T.AUDIO_SRTP_PARAM \notin DOMAIN objs THEN "KeyError"
        ELSE SrtpException(objs[T.AUDIO_SRTP_PARAM])

\* A variant of SrtpResponse that answers with the crypto suite of the request.
SrtpResponseEchoesSuite(srtp, info) ==
    IF srtp
    THEN TlvEncode(<<
            <<SETUP_SRTP_PARAM.CRYPTO, info[SETUP_SRTP_PARAM.CRYPTO]>>,
            <<SETUP_SRTP_PARAM.MASTER_KEY, info[SETUP_SRTP_PARAM.MASTER_KEY]>>,
            <<SETUP_SRTP_PARAM.MASTER_SALT, info[SETUP_SRTP_PARAM.MASTER_SALT]>> >>)
    ELSE NO_SRTP

\* Lines 562-574: the SRTP block of the response for one stream.
SrtpResponse(srtp, info) ==
    IF srtp
    THEN TlvEncode(<<
            <<SETUP_SRTP_PARAM.CRYPTO, <<SRTP_CRYPTO_SUITES.AES_CM_128_HMAC_SHA1_80>>>>,
            <<SETUP_SRTP_PARAM.MASTER_KEY, info[SETUP_SRTP_PARAM.MASTER_KEY]>>,
            <<SETUP_SRTP_PARAM.MASTER_SALT, info[SETUP_SRTP_PARAM.MASTER_SALT]>> >>)
    ELSE NO_SRTP

\* Lines 576-577: the fixed synchronization-source identifiers.
video_ssrc == <<1>>
audio_ssrc == <<1>>

\* A variant of SetupResponse whose address block is the one of the request
\* (the peer's address and family in place of the accessory's).
SetupResponseEchoesPeer(objs, srtp) ==
    LET T == SETUP_TYPES
        A == SETUP_ADDR_INFO
        info == objs[T.ADDRESS]
        res_address_tlv == TlvEncode(<<
            <<A.ADDRESS_VER, info[A.ADDRESS_VER]>>,
            <<A.ADDRESS, info[A.ADDRESS]>>,
            <<A.VIDEO_RTP_PORT, PackH(UnpackH(info[A.VIDEO_RTP_PORT]))>>,
            <<A.AUDIO_RTP_PORT, PackH(UnpackH(info[A.AUDIO_RTP_PORT]))>> >>)
    IN  TlvEncode(<<
            <<T.SESSION_ID, objs[T.SESSION_ID]>>,
            <<T.STATUS, <<SETUP_STATUS.SUCCESS>>>>,
            <<T.ADDRESS, res_address_tlv>>,
            <<T.VIDEO_SRTP_PARAM, SrtpResponse(srtp, objs[T.VIDEO_SRTP_PARAM])>>,
            <<T.AUDIO_SRTP_PARAM, SrtpResponse(srtp, objs[T.AUDIO_SRTP_PARAM])>>,
            <<T.VIDEO_SSRC, <<1>>>>,
            <<T.AUDIO_SSRC, <<1>>>> >>)

\* Lines 579-592: the response to a request that parsed.
SetupResponse(objs, srtp) ==
    LET T == SETUP_TYPES
        A == SETUP_ADDR_INFO
        info == objs[T.ADDRESS]
        target_video_port == UnpackH(info[A.VIDEO_RTP_PORT])
        target_audio_port == UnpackH(info[A.AUDIO_RTP_PORT])
        res_address_tlv == TlvEncode(<<
            <<A.ADDRESS_VER, stream_address_isv6>>,
            <<A.ADDRESS, stream_address>>,
            <<A.VIDEO_RTP_PORT, PackH(target_video_port)>>,
            <<A.AUDIO_RTP_PORT, PackH(target_audio_port)>> >>)
    IN  TlvEncode(<<
            <<T.SESSION_ID, objs[T.SESSION_ID]>>,
            <<T.STATUS, <<SETUP_STATUS.SUCCESS>>>>,
            <<T.ADDRESS, res_address_tlv>>,
            <<T.VIDEO_SRTP_PARAM, SrtpResponse(srtp, objs[T.VIDEO_SRTP_PARAM])>>,
            <<T.AUDIO_SRTP_PARAM, SrtpResponse(srtp, objs[T.AUDIO_SRTP_PARAM])>>,
            <<T.VIDEO_SSRC, video_ssrc>>,
            <<T.AUDIO_SSRC, audio_ssrc>> >>)

\* Lines 594-604: the record stored for a request that parsed; it has no
\* 'process' key.
SessionRecord(objs) ==
    LET T == SETUP_TYPES
        A == SETUP_ADDR_INFO
        P == SETUP_SRTP_PARAM
    IN  [address |-> objs[T.ADDRESS][A.ADDRESS],
         video_port |-> UnpackH(objs[T.ADDRESS][A.VIDEO_RTP_PORT]),
         video_srtp_key |-> objs[T.VIDEO_SRTP_PARAM][P.MASTER_KEY],
         video_srtp_salt |-> objs[T.VIDEO_SRTP_PARAM][P.MASTER_SALT],
         video_ssrc |-> video_ssrc,
         audio_port |-> UnpackH(objs[T.ADDRESS][A.AUDIO_RTP_PORT]),
         audio_srtp_key |-> objs[T.AUDIO_SRTP_PARAM][P.MASTER_KEY],
         audio_srtp_salt |-> objs[T.AUDIO_SRTP_PARAM][P.MASTER_SALT],
         audio_ssrc |-> audio_ssrc,
         process |-> NoProcess]

\* A variant of Store that keeps the record an id already has
\* (sessions.setdefault in place of the assignment).
StoreIfAbsent(store, session_id, record) ==
    [s \in DOMAIN store \cup {session_id} |->
        IF s \in DOMAIN store THEN store[s] ELSE record]

\* self.sessions[session_id] = record
Store(store, session_id, record) ==
    [s \in DOMAIN store \cup {session_id} |->
        IF s = session_id THEN record ELSE store[s]]

\* set_endpoints(value)
SetEndpoints(value) ==
    /\ logged' = NoLog
    /\ popen_cmd' = NoCmd
    /\ UNCHANGED <<selected_config, support_srtp, threads, procs, streaming_status,
                   status_char, capabilities>>
    /\ IF SetupException(value) # NoException
       THEN /\ raised' = SetupException(value)
            /\ UNCHANGED <<sessions, setup_endpoints>>
       ELSE /\ raised' = NoException
            /\ sessions' = Store(sessions, value[SETUP_TYPES.SESSION_ID],
                                 SessionRecord(value))
            /\ setup_endpoints' = ToBase64Str(SetupResponse(value, support_srtp))

\* _run
Run ==
    /\ streaming_status' = STREAMING_STATUS.STREAMING
    /\ status_char' = GetStreamingStatus(STREAMING_STATUS.STREAMING)
    /\ raised' = NoException
    /\ logged' = NoLog
    /\ popen_cmd' = NoCmd
    /\ UNCHANGED <<sessions, selected_config, setup_endpoints, support_srtp, procs,
                   threads, capabilities>>

----------------------------------------------------------------------------
(* The requests the controller sends *)

SessionIds == {<<17>>, <<34>>}

\* The dict with the given (key, value) items.
MapOf(items) ==
    [k \in {i[1] : i \in items} |-> (CHOOSE i \in items : i[1] = k)[2]]

\* The dict without one key.
Without(objs, key) == [k \in DOMAIN objs \ {key} |-> objs[k]]

\* A setup request: peer address, target ports and the SRTP material.
SetupRequest(session_id, address, video_port, audio_port, key, salt) ==
    MapOf({
        <<SETUP_TYPES.SESSION_ID, session_id>>,
        <<SETUP_TYPES.ADDRESS, MapOf({
            <<SETUP_ADDR_INFO.ADDRESS_VER, <<0>>>>,
            <<SETUP_ADDR_INFO.ADDRESS, address>>,
            <<SETUP_ADDR_INFO.VIDEO_RTP_PORT, PackH(video_port)>>,
            <<SETUP_ADDR_INFO.AUDIO_RTP_PORT, PackH(audio_port)>>})>>,
        <<SETUP_TYPES.VIDEO_SRTP_PARAM, MapOf({
            <<SETUP_SRTP_PARAM.CRYPTO, <<SRTP_CRYPTO_SUITES.AES_CM_256_HMAC_SHA1_80>>>>,
            <<SETUP_SRTP_PARAM.MASTER_KEY, key>>,
            <<SETUP_SRTP_PARAM.MASTER_SALT, salt>>})>>,
        <<SETUP_TYPES.AUDIO_SRTP_PARAM, MapOf({
            <<SETUP_SRTP_PARAM.CRYPTO, <<SRTP_CRYPTO_SUITES.AES_CM_128_HMAC_SHA1_80>>>>,
            <<SETUP_SRTP_PARAM.MASTER_KEY, salt>>,
            <<SETUP_SRTP_PARAM.MASTER_SALT, key>>})>>})

\* The complete requests: session id 17 comes with either of two endpoint
\* descriptions that differ in every field, session id 34 with the first.
CompleteSetupRequests ==
    {SetupRequest(sid, <<49, 46, 50>>, 50000, 50002, <<11, 12>>, <<13>>) :
        sid \in SessionIds}
    \cup
    {SetupRequest(<<17>>, <<58, 58, 49>>, 513, 515, <<21, 22>>, <<23>>)}

\* Requests that lack one required top-level field.
IncompleteSetupRequests ==
    {Without(SetupRequest(<<17>>, <<49, 46, 50>>, 50000, 50002, <<11, 12>>, <<13>>), k) :
        k \in {SETUP_TYPES.SESSION_ID, SETUP_TYPES.ADDRESS,
               SETUP_TYPES.VIDEO_SRTP_PARAM, SETUP_TYPES.AUDIO_SRTP_PARAM}}

\* Requests one of whose blocks lacks a required sub-field: the address block
\* without the video port, the video SRTP block without the master key, the
\* audio SRTP block without the master salt.
IncompleteBlockSetupRequests ==
    LET request == SetupRequest(<<17>>, <<49, 46, 50>>, 50000, 50002, <<11, 12>>, <<13>>)
    IN  {[request EXCEPT ![SETUP_TYPES.ADDRESS] =
                Without(@, SETUP_ADDR_INFO.VIDEO_RTP_PORT)],
         [request EXCEPT ![SETUP_TYPES.VIDEO_SRTP_PARAM] =
                Without(@, SETUP_SRTP_PARAM.MASTER_KEY)],
         [request EXCEPT ![SETUP_TYPES.AUDIO_SRTP_PARAM] =
                Without(@, SETUP_SRTP_PARAM.MASTER_SALT)]}

SetupRequests ==
    CompleteSetupRequests \cup IncompleteSetupRequests \cup IncompleteBlockSetupRequests

\* The session block of a selected-configuration request.
SessionBlock(session_id, request_type) ==
    MapOf({<<SESSION_BLOCK_TYPES.SESSION_ID, session_id>>,
           <<SESSION_BLOCK_TYPES.REQUEST_TYPE, <<request_type>>>>})

VideoCodecParams ==
    MapOf({<<VIDEO_CODEC_PARAM_TYPES.PROFILE_ID, <<1>>>>,
           <<VIDEO_CODEC_PARAM_TYPES.LEVEL, <<2>>>>})

VideoAttributes(width, height, fps) ==
    MapOf({<<VIDEO_ATTRIBUTES_TYPES.IMAGE_WIDTH, PackH(width)>>,
           <<VIDEO_ATTRIBUTES_TYPES.IMAGE_HEIGHT, PackH(height)>>,
           <<VIDEO_ATTRIBUTES_TYPES.FRAME_RATE, <<fps>>>>})

VideoRtpParams(max_bit_rate) ==
    MapOf({<<RTP_PARAM_TYPES.PAYLOAD_TYPE, <<99>>>>,
           <<RTP_PARAM_TYPES.SYNCHRONIZATION_SOURCE, <<7, 0, 0, 0>>>>,
           <<RTP_PARAM_TYPES.MAX_BIT_RATE, PackH(max_bit_rate)>>,
           <<RTP_PARAM_TYPES.RTCP_SEND_INTERVAL, <<0, 0, 0, 63>>>>})

\* The complete video block, and the one that carries zeros.
FullVideo ==
    MapOf({<<VIDEO_TYPES.CODEC, <<0>>>>,
           <<VIDEO_TYPES.CODEC_PARAM, VideoCodecParams>>,
           <<VIDEO_TYPES.ATTRIBUTES, VideoAttributes(640, 480, 60)>>,
           <<VIDEO_TYPES.RTP_PARAM, VideoRtpParams(132)>>})

ZeroVideo ==
    MapOf({<<VIDEO_TYPES.CODEC, <<0>>>>,
           <<VIDEO_TYPES.ATTRIBUTES, VideoAttributes(0, 0, 15)>>,
           <<VIDEO_TYPES.RTP_PARAM, VideoRtpParams(0)>>})

AudioBlock ==
    MapOf({<<AUDIO_TYPES.CODEC, <<3>>>>,
           <<AUDIO_TYPES.CODEC_PARAM, MapOf({
                <<AUDIO_CODEC_PARAM_TYPES.CHANNEL, <<1>>>>,
                <<AUDIO_CODEC_PARAM_TYPES.BIT_RATE, <<0>>>>,
                <<AUDIO_CODEC_PARAM_TYPES.SAMPLE_RATE, <<1>>>>,
                <<AUDIO_CODEC_PARAM_TYPES.PACKET_TIME, <<20>>>>})>>,
           <<AUDIO_TYPES.RTP_PARAM, MapOf({
                <<RTP_PARAM_TYPES.PAYLOAD_TYPE, <<110>>>>,
                <<RTP_PARAM_TYPES.SYNCHRONIZATION_SOURCE, <<8, 0, 0, 0>>>>,
                <<RTP_PARAM_TYPES.MAX_BIT_RATE, <<24, 0>>>>,
                <<RTP_PARAM_TYPES.RTCP_SEND_INTERVAL, <<0, 0, 160, 64>>>>,
                <<RTP_PARAM_TYPES.COMFORT_NOISE_PAYLOAD_TYPE, <<13>>>>})>>,
           <<AUDIO_TYPES.COMFORT_NOISE, <<0>>>>})

\* The (video, audio) parts a start and a reconfigure request come with: the
\* complete video block with the audio block, the video block of zeros, and
\* no video block.
MediaParts ==
    LET S == SELECTED_STREAM_CONFIGURATION_TYPES
    IN  {{<<S.VIDEO, FullVideo>>, <<S.AUDIO, AudioBlock>>},
         {<<S.VIDEO, ZeroVideo>>},
         {}}

\* The parts only start requests come with: a video block that lacks the
\* attributes or the RTP parameters, and an audio block that lacks a field.
PartialMediaParts ==
    LET S == SELECTED_STREAM_CONFIGURATION_TYPES
    IN  {{<<S.VIDEO, Without(FullVideo, VIDEO_TYPES.ATTRIBUTES)>>},
         {<<S.VIDEO, Without(FullVideo, VIDEO_TYPES.RTP_PARAM)>>},
         {<<S.VIDEO, FullVideo>>,
          <<S.AUDIO, Without(AudioBlock, AUDIO_TYPES.COMFORT_NOISE)>>}}

SelectedRequest(session_id, kind, media) ==
    MapOf({<<SELECTED_STREAM_CONFIGURATION_TYPES.SESSION,
             SessionBlock(session_id, kind)>>} \cup media)

\* Start (1) and reconfigure (4) requests: session id 17 with every kind of
\* media parts, session id 34 with the complete ones.
StartRequests ==
    {SelectedRequest(<<17>>, 1, media) : media \in MediaParts \cup PartialMediaParts}
    \cup
    {SelectedRequest(<<17>>, 4, media) : media \in MediaParts}
    \cup
    {SelectedRequest(<<34>>, kind, {<<SELECTED_STREAM_CONFIGURATION_TYPES.VIDEO,
                                      FullVideo>>}) : kind \in {1, 4}}

\* Stop (0) requests and requests of an unknown kind (9).
ControlRequests ==
    {SelectedRequest(sid, kind, {}) : sid \in SessionIds, kind \in {0, 9}}

\* Requests without a session block, or whose session block lacks a sub-field.
MalformedRequests ==
    LET S == SELECTED_STREAM_CONFIGURATION_TYPES
        B == SESSION_BLOCK_TYPES
    IN  {MapOf({<<S.VIDEO, FullVideo>>}),
         MapOf({<<S.SESSION, Without(SessionBlock(<<17>>, 1), B.REQUEST_TYPE)>>}),
         MapOf({<<S.SESSION, Without(SessionBlock(<<17>>, 0), B.SESSION_ID)>>})}

SelectedRequests == StartRequests \cup ControlRequests \cup MalformedRequests

----------------------------------------------------------------------------
(* The options the accessory is constructed with *)

\* The sequences over a set of length at most n.
SeqsUpTo(set, n) == UNION {[1..k -> set] : k \in 0..n}

\* Codec entries: the two codec kinds the function knows and one it does not,
\* with the three sample rates it knows and one it does not.
AudioCodecEntries ==
    [type : {"OPUS", "AAC-eld", "PCMU"}, samplerate : {8, 16, 24, 44}]

\* options['audio']: a list of codec entries, with or without 'comfort_noise'.
AudioParams ==
    [codecs : SeqsUpTo(AudioCodecEntries, MaxCodecs)]
    \cup
    [codecs : SeqsUpTo(AudioCodecEntries, MaxCodecs), comfort_noise : BOOLEAN]

\* (width, height, frame rate)
Resolutions == {<<320, 240, 15>>, <<1280, 720, 30>>}

\* options['video']: the profiles, the levels and a list of resolutions.
VideoParams ==
    [codec : {[profiles |-> <<<<0>>, <<1>>>>, levels |-> <<<<2>>>>]},
     resolutions : SeqsUpTo(Resolutions, MaxResolutions)]

\* The options of the accessory that handles requests.
DefaultAudioParams ==
    [codecs |-> <<[type |-> "OPUS", samplerate |-> 24]>>, comfort_noise |-> FALSE]

DefaultVideoParams ==
    [codec |-> [profiles |-> <<<<0>>, <<1>>>>, levels |-> <<<<2>>>>],
     resolutions |-> <<<<1280, 720, 30>>>>]

----------------------------------------------------------------------------
(* The accessory, one request at a time *)

EmptyStore == [s \in {} |-> NoProcess]

NoThreads == [t \in {} |-> NoProcess]

\* __init__ and _set_services
Init ==
    /\ sessions = EmptyStore
    /\ streaming_status = STREAMING_STATUS.AVAILABLE
    /\ status_char = GetStreamingStatus(STREAMING_STATUS.AVAILABLE)
    /\ selected_config = None
    /\ setup_endpoints = None
    /\ support_srtp \in BOOLEAN
    /\ procs = <<>>
    /\ raised = NoException
    /\ logged = NoLog
    /\ popen_cmd = NoCmd
    /\ threads = NoThreads
    /\ audio_params = DefaultAudioParams
    /\ video_params = DefaultVideoParams
    /\ supported_video_config = GetSupportedVideoStreamConfig(DefaultVideoParams)
    /\ supported_audio_config = GetSupportedAudioStreamConfig(DefaultAudioParams).config
    /\ warnings = GetSupportedAudioStreamConfig(DefaultAudioParams).warnings

Setup == \E value \in SetupRequests : SetEndpoints(value)

Select ==
    \E value \in SelectedRequests, popen_ok \in BOOLEAN :
        SetSelectedStreamConfiguration(value, popen_ok)

Next == Setup \/ Select \/ Run

Spec == Init /\ [][Next]_vars

----------------------------------------------------------------------------
(* Start requests handled by two threads whose steps interleave: each thread *)
(* runs set_selected_stream_configuration and _start_stream, one access to   *)
(* the shared state per step                                                 *)

Threads == {1, 2}

IdleThread == [pc |-> "idle", session_id |-> None, cmd |-> NoCmd, handle |-> NoProcess]

\* The session id the threads' requests name.
ConcurrentSessionId == <<17>>

\* The start requests the threads handle: with the complete video block, and
\* with the video block of zeros.
ConcurrentRequests ==
    {SelectedRequest(ConcurrentSessionId, 1,
                     {<<SELECTED_STREAM_CONFIGURATION_TYPES.VIDEO, video>>}) :
        video \in {FullVideo, ZeroVideo}}

\* Lines 495-507 and 387-470: the request is remembered, parsed, and its
\* session looked up in the store.
EnterStart(t, value) ==
    /\ threads[t].pc = "idle"
    /\ selected_config' = value
    /\ logged' = NoLog
    /\ IF StartException(value, sessions) # NoException
       THEN /\ raised' = StartException(value, sessions)
            /\ UNCHANGED threads
       ELSE /\ threads' = [threads EXCEPT ![t] =
                    [pc |-> "popen",
                     session_id |-> RequestSessionIdOf(value),
                     cmd |-> FfmpegCmd(sessions[RequestSessionIdOf(value)], Locals(value)),
                     handle |-> NoProcess]]
            /\ UNCHANGED raised
    /\ UNCHANGED <<sessions, streaming_status, status_char, setup_endpoints,
                   support_srtp, procs, popen_cmd, capabilities>>

\* Line 474, the right-hand side: subprocess.Popen(cmd)
PopenStep(t, popen_ok) ==
    /\ threads[t].pc = "popen"
    /\ popen_cmd' = threads[t].cmd
    /\ IF popen_ok
       THEN /\ Len(procs) < MaxSpawns
            /\ procs' = Popen(procs, threads[t].session_id)
            /\ threads' = [threads EXCEPT ![t].pc = "attach",
                                          ![t].handle = Len(procs) + 1]
            /\ UNCHANGED raised
       ELSE /\ raised' = "OSError"
            /\ threads' = [threads EXCEPT ![t] = IdleThread]
            /\ UNCHANGED procs
    /\ UNCHANGED <<sessions, streaming_status, status_char, selected_config,
                   setup_endpoints, support_srtp, logged, capabilities>>

\* Line 474, the assignment: the record is looked up again and the handle stored.
AttachStep(t) ==
    /\ threads[t].pc = "attach"
    /\ IF threads[t].session_id \in DOMAIN sessions
       THEN /\ sessions' = AttachProcess(sessions, threads[t].session_id,
                                         threads[t].handle)
            /\ threads' = [threads EXCEPT ![t].pc = "publish"]
            /\ UNCHANGED raised
       ELSE /\ raised' = "KeyError"
            /\ threads' = [threads EXCEPT ![t] = IdleThread]
            /\ UNCHANGED sessions
    /\ UNCHANGED <<streaming_status, status_char, selected_config, setup_endpoints,
                   support_srtp, procs, logged, popen_cmd, capabilities>>

\* Lines 476-478: the status is set and published.
PublishStep(t) ==
    /\ threads[t].pc = "publish"
    /\ streaming_status' = STREAMING_STATUS.STREAMING
    /\ status_char' = GetStreamingStatus(STREAMING_STATUS.STREAMING)
    /\ raised' = NoException
    /\ threads' = [threads EXCEPT ![t] = IdleThread]
    /\ UNCHANGED <<sessions, selected_config, setup_endpoints, support_srtp, procs,
                   logged, popen_cmd, capabilities>>

InitConc ==
    /\ sessions = EmptyStore
    /\ streaming_status = STREAMING_STATUS.AVAILABLE
    /\ status_char = GetStreamingStatus(STREAMING_STATUS.AVAILABLE)
    /\ selected_config = None
    /\ setup_endpoints = None
    /\ support_srtp \in BOOLEAN
    /\ procs = <<>>
    /\ raised = NoException
    /\ logged = NoLog
    /\ popen_cmd = NoCmd
    /\ threads = [t \in Threads |-> IdleThread]
    /\ audio_params = DefaultAudioParams
    /\ video_params = DefaultVideoParams
    /\ supported_video_config = GetSupportedVideoStreamConfig(DefaultVideoParams)
    /\ supported_audio_config = GetSupportedAudioStreamConfig(DefaultAudioParams).config
    /\ warnings = GetSupportedAudioStreamConfig(DefaultAudioParams).warnings

SetupConc ==
    \E value \in {v \in CompleteSetupRequests :
                    v[SETUP_TYPES.SESSION_ID] = ConcurrentSessionId} :
        SetEndpoints(value)

StopConc ==
    SetSelectedStreamConfiguration(SelectedRequest(ConcurrentSessionId, 0, {}), TRUE)

Enter == \E t \in Threads, value \in ConcurrentRequests : EnterStart(t, value)

Spawn == \E t \in Threads, popen_ok \in BOOLEAN : PopenStep(t, popen_ok)

Attach == \E t \in Threads : AttachStep(t)

Publish == \E t \in Threads : PublishStep(t)

NextConc == SetupConc \/ StopConc \/ Enter \/ Spawn \/ Attach \/ Publish

SpecConc == InitConc /\ [][NextConc]_vars

----------------------------------------------------------------------------
(* The construction of the accessory for any options *)

\* The options are given and __init__ has not run: no attribute has a value.
InitOptions ==
    /\ audio_params \in AudioParams
    /\ video_params \in VideoParams
    /\ support_srtp \in BOOLEAN
    /\ supported_audio_config = None
    /\ supported_video_config = None
    /\ warnings = <<>>
    /\ sessions = None
    /\ streaming_status = None
    /\ status_char = None
    /\ selected_config = None
    /\ setup_endpoints = None
    /\ procs = <<>>
    /\ raised = NoException
    /\ logged = NoLog
    /\ popen_cmd = NoCmd
    /\ threads = NoThreads

\* __init__ (lines 325-343) with _set_services (lines 352-384)
Construct ==
    /\ supported_video_config = None
    /\ streaming_status' = STREAMING_STATUS.AVAILABLE
    /\ supported_video_config' = GetSupportedVideoStreamConfig(video_params)
    /\ supported_audio_config' = GetSupportedAudioStreamConfig(audio_params).config
    /\ warnings' = warnings \o GetSupportedAudioStreamConfig(audio_params).warnings
    /\ sessions' = EmptyStore
    /\ status_char' = GetStreamingStatus(STREAMING_STATUS.AVAILABLE)
    /\ UNCHANGED <<audio_params, video_params, support_srtp, selected_config,
                   setup_endpoints, procs, raised, logged, popen_cmd, threads>>

NextConstruct == Construct

SpecConstruct == InitOptions /\ [][NextConstruct]_vars

----------------------------------------------------------------------------
(* Reading a selected-configuration request *)

HasRequestType(value) ==
    /\ SELECTED_STREAM_CONFIGURATION_TYPES.SESSION \in DOMAIN value
    /\ Truthy(value[SELECTED_STREAM_CONFIGURATION_TYPES.SESSION],
              SESSION_BLOCK_TYPES.REQUEST_TYPE)

RequestType(value) ==
    value[SELECTED_STREAM_CONFIGURATION_TYPES.SESSION][SESSION_BLOCK_TYPES.REQUEST_TYPE][1]

HasSessionId(value) ==
    /\ SELECTED_STREAM_CONFIGURATION_TYPES.SESSION \in DOMAIN value
    /\ SESSION_BLOCK_TYPES.SESSION_ID
          \in DOMAIN value[SELECTED_STREAM_CONFIGURATION_TYPES.SESSION]

RequestSessionId(value) == RequestSessionIdOf(value)

\* A request of one of the given types that names a session id.
IsRequest(value, types) ==
    HasRequestType(value) /\ HasSessionId(value) /\ RequestType(value) \in types

\* The request carries a video block with both the attributes and the RTP
\* parameters, every block it carries has all its fields.
IsCompleteStart(value) ==
    /\ Truthy(value, SELECTED_STREAM_CONFIGURATION_TYPES.VIDEO)
    /\ Truthy(value[SELECTED_STREAM_CONFIGURATION_TYPES.VIDEO], VIDEO_TYPES.ATTRIBUTES)
    /\ Truthy(value[SELECTED_STREAM_CONFIGURATION_TYPES.VIDEO], VIDEO_TYPES.RTP_PARAM)
    /\ VideoException(value) = NoException
    /\ AudioException(value) = NoException

\* The request omits the width and height (no attributes) or the max bit rate
\* (no RTP parameters), the blocks it does carry being complete.
OmitsVideoFields(value) ==
    /\ \/ ~Truthy(value, SELECTED_STREAM_CONFIGURATION_TYPES.VIDEO)
       \/ ~Truthy(value[SELECTED_STREAM_CONFIGURATION_TYPES.VIDEO], VIDEO_TYPES.ATTRIBUTES)
       \/ ~Truthy(value[SELECTED_STREAM_CONFIGURATION_TYPES.VIDEO], VIDEO_TYPES.RTP_PARAM)
    /\ VideoException(value) = NoException
    /\ AudioException(value) = NoException

\* The setup request has the session id, the address block with its four
\* sub-fields, and both SRTP blocks with their three sub-fields.
HasAllSetupFields(value) ==
    /\ {SETUP_TYPES.SESSION_ID, SETUP_TYPES.ADDRESS, SETUP_TYPES.VIDEO_SRTP_PARAM,
        SETUP_TYPES.AUDIO_SRTP_PARAM} \subseteq DOMAIN value
    /\ {SETUP_ADDR_INFO.ADDRESS_VER, SETUP_ADDR_INFO.ADDRESS,
        SETUP_ADDR_INFO.VIDEO_RTP_PORT, SETUP_ADDR_INFO.AUDIO_RTP_PORT}
          \subseteq DOMAIN value[SETUP_TYPES.ADDRESS]
    /\ \A block \in {SETUP_TYPES.VIDEO_SRTP_PARAM, SETUP_TYPES.AUDIO_SRTP_PARAM} :
          {SETUP_SRTP_PARAM.CRYPTO, SETUP_SRTP_PARAM.MASTER_KEY,
           SETUP_SRTP_PARAM.MASTER_SALT} \subseteq DOMAIN value[block]

\* The bytes of a base64 string given as its 6-bit digits (64 is the padding):
\* each group of four digits gives three bytes, less one for each padding digit.
RECURSIVE FromBase64Groups(_, _)
FromBase64Groups(str, g) ==
    IF 4 * g >= Len(str) THEN <<>>
    ELSE LET d1 == str[4 * g + 1]
             d2 == str[4 * g + 2]
             d3 == str[4 * g + 3]
             d4 == str[4 * g + 4]
             b1 == d1 * 4 + d2 \div 16
             b2 == (d2 % 16) * 16 + d3 \div 4
             b3 == (d3 % 4) * 64 + d4
         IN  (IF d3 = 64 THEN <<b1>>
              ELSE IF d4 = 64 THEN <<b1, b2>>
              ELSE <<b1, b2, b3>>)
             \o FromBase64Groups(str, g + 1)

FromBase64Str(str) == FromBase64Groups(str, 0)

\* The (type, value) items of a TLV byte string from position i on, in order.
RECURSIVE TlvItemsFrom(_, _)
TlvItemsFrom(bytes, i) ==
    IF i + 1 > Len(bytes) THEN <<>>
    ELSE <<<<bytes[i], SubSeq(bytes, i + 2, i + 1 + bytes[i + 1])>>>>
         \o TlvItemsFrom(bytes, i + 2 + bytes[i + 1])

TlvItems(bytes) == TlvItemsFrom(bytes, 1)

\* The values of the items of the given type, in order.
ValuesOfType(items, type) ==
    LET RECURSIVE Pick(_)
        Pick(rest) ==
            IF rest = <<>> THEN <<>>
            ELSE IF Head(rest)[1] = type THEN <<Head(rest)[2]>> \o Pick(Tail(rest))
            ELSE Pick(Tail(rest))
    IN  Pick(items)

\* The dict of a TLV byte string.
TlvDict(bytes) ==
    LET items == TlvItems(bytes)
    IN  MapOf({items[j] : j \in 1..Len(items)})

\* The value of the item of the given type of a TLV byte string.
TlvGet(bytes, type) == ValuesOfType(TlvItems(bytes), type)[1]

\* The TLV bytes of the value of the SetupEndpoints characteristic.
ResponseOf(blob) == FromBase64Str(blob)

\* The codec entries of an advertised audio blob.
AdvertisedCodecs(blob) == ValuesOfType(TlvItems(FromBase64Str(blob)), 1)

\* The attributes blocks of an advertised video blob, each as a dict.
AdvertisedAttributes(blob) ==
    LET config == TlvItems(FromBase64Str(blob))[1][2]
        blocks == ValuesOfType(TlvItems(config), VIDEO_TYPES.ATTRIBUTES)
    IN  [k \in 1..Len(blocks) |-> TlvDict(blocks[k])]

\* The codec entry OPUS / variable bit rate / 24 kHz, one channel:
\* codec 01 01 03, then codec parameters 02 09 (01 01 01, 02 01 00, 03 01 02).
FallbackEntry == <<1, 1, 3, 2, 9, 1, 1, 1, 2, 1, 0, 3, 1, 2>>

\* The codec entry passes both filters: a codec kind and a sample rate the
\* function knows.
SurvivesFiltering(codec_param) ==
    codec_param.type \in {"OPUS", "AAC-eld"} /\ codec_param.samplerate \in {8, 16, 24}

\* The codec kind is not one the function knows.
UnrecognizedKind(codec_param) == codec_param.type \notin {"OPUS", "AAC-eld"}

\* base64 of the StreamingStatus TLV 01 01 01: "AQEB"
StreamingStatusStreaming == <<0, 16, 4, 1>>

----------------------------------------------------------------------------
(* Claims *)

\* C1: a start or reconfigure request that succeeds on a session whose record
\* has a process attached requests the kill of that process, and leaves
\* exactly one process of the session that was spawned and not killed.
C1_RestartKillsOldProcess ==
    [][\A value \in SelectedRequests :
          ( /\ SetSelectedStreamConfiguration(value, TRUE)
            /\ IsRequest(value, {1, 4})
            /\ RequestSessionId(value) \in DOMAIN sessions
            /\ sessions[RequestSessionId(value)].process # NoProcess
            /\ raised' = NoException )
          => /\ procs'[sessions[RequestSessionId(value)].process].kills
                  = procs[sessions[RequestSessionId(value)].process].kills + 1
             /\ Cardinality(LiveProcesses(procs', RequestSessionId(value))) = 1
      ]_vars

\* C2: a stop request for a session id that is not in the store returns
\* without an exception, requests no kill, and leaves the store and the
\* streaming status as they were.
C2_StopUnknownIsNoOp ==
    [][\A value \in SelectedRequests, popen_ok \in BOOLEAN :
          ( /\ SetSelectedStreamConfiguration(value, popen_ok)
            /\ IsRequest(value, {0})
            /\ RequestSessionId(value) \notin DOMAIN sessions )
          => /\ raised' = NoException
             /\ UNCHANGED <<sessions, procs, streaming_status, status_char>>
      ]_vars

\* C3: a start or reconfigure request for a session id that is not in the
\* store lets no exception escape, spawns nothing, creates no record and
\* leaves the streaming status as it was.
C3_StartUnknownIsNoOp ==
    [][\A value \in SelectedRequests, popen_ok \in BOOLEAN :
          ( /\ SetSelectedStreamConfiguration(value, popen_ok)
            /\ IsRequest(value, {1, 4})
            /\ RequestSessionId(value) \notin DOMAIN sessions )
          => /\ raised' = NoException
             /\ UNCHANGED <<sessions, procs, streaming_status, status_char>>
      ]_vars

\* C4: every process that was spawned and not killed is the handle attached
\* to a record of the session store.
C4_LiveProcessesAreAttached ==
    \A h \in Handles :
        procs[h].kills = 0 =>
            \E sid \in DOMAIN sessions : sessions[sid].process = h

\* C5: while two threads handle start requests with their steps interleaved,
\* no session id ever has two processes that were spawned and not killed.
C5_OneLiveProcessPerSession ==
    \A sid \in SessionIds : Cardinality(LiveProcesses(procs, sid)) <= 1

\* C6: a start request for a session id in the store that carries the video
\* attributes and RTP parameters, when the spawn succeeds, spawns exactly one
\* process, attaches its handle to the session's record, and sets and
\* publishes the status Streaming.
C6_StartReachesStreaming ==
    [][\A value \in SelectedRequests :
          ( /\ SetSelectedStreamConfiguration(value, TRUE)
            /\ IsRequest(value, {1})
            /\ RequestSessionId(value) \in DOMAIN sessions
            /\ IsCompleteStart(value) )
          => /\ raised' = NoException
             /\ Len(procs') = Len(procs) + 1
             /\ \A h \in Handles : procs'[h] = procs[h]
             /\ procs'[Len(procs')] =
                    [session_id |-> RequestSessionId(value), kills |-> 0]
             /\ RequestSessionId(value) \in DOMAIN sessions'
             /\ sessions'[RequestSessionId(value)].process = Len(procs')
             /\ streaming_status' = STREAMING_STATUS.STREAMING
             /\ status_char' = StreamingStatusStreaming
      ]_vars

\* A start request has just taken a session from Configured to Streaming with
\* the first process spawned.
C6_Witness ==
    /\ IsRequest(selected_config, {1})
    /\ IsCompleteStart(selected_config)
    /\ raised = NoException
    /\ popen_cmd # NoCmd
    /\ Len(procs) = 1
    /\ RequestSessionId(selected_config) \in DOMAIN sessions
    /\ sessions[RequestSessionId(selected_config)].process = 1
    /\ streaming_status = STREAMING_STATUS.STREAMING

\* C7: a stop request for a session id in the store removes that record: an
\* attached process gets exactly one kill request, a record without a process
\* gets none and the stop still succeeds; the other records, and the other
\* processes, are untouched.
C7_StopRemovesRecord ==
    [][\A value \in SelectedRequests, popen_ok \in BOOLEAN :
          ( /\ SetSelectedStreamConfiguration(value, popen_ok)
            /\ IsRequest(value, {0})
            /\ RequestSessionId(value) \in DOMAIN sessions )
          => LET sid == RequestSessionId(value)
                 attached == sessions[sid].process
             IN  /\ raised' = NoException
                 /\ DOMAIN sessions' = DOMAIN sessions \ {sid}
                 /\ \A other \in DOMAIN sessions' : sessions'[other] = sessions[other]
                 /\ Len(procs') = Len(procs)
                 /\ \A h \in Handles :
                        procs'[h] = IF h = attached
                                    THEN [procs[h] EXCEPT !.kills = @ + 1]
                                    ELSE procs[h]
                 /\ attached # NoProcess => procs'[attached].kills = 1
      ]_vars

\* A stop has just removed a Streaming record and killed its process, the
\* other session's record still being in the store.
C7_Witness ==
    /\ IsRequest(selected_config, {0})
    /\ raised = NoException
    /\ RequestSessionId(selected_config) \notin DOMAIN sessions
    /\ DOMAIN sessions # {}
    /\ \E h \in Handles :
          procs[h] = [session_id |-> RequestSessionId(selected_config), kills |-> 1]

\* C8: a request whose request type is none of 0, 1 and 4 leaves the session
\* store, the processes and the streaming status as they were, and is
\* answered with the logged error for an unknown request type.
C8_UnknownRequestTypeChangesNothing ==
    [][\A value \in SelectedRequests, popen_ok \in BOOLEAN :
          ( /\ SetSelectedStreamConfiguration(value, popen_ok)
            /\ HasRequestType(value)
            /\ RequestType(value) \notin {0, 1, 4} )
          => /\ UNCHANGED <<sessions, procs, streaming_status, status_char>>
             /\ raised' = NoException
             /\ logged' = "Unknown request type"
      ]_vars

\* A request of type 9 for a Streaming session has just been refused.
C8_Witness ==
    /\ HasRequestType(selected_config)
    /\ RequestType(selected_config) = 9
    /\ logged = "Unknown request type"
    /\ RequestSessionId(selected_config) \in DOMAIN sessions
    /\ sessions[RequestSessionId(selected_config)].process # NoProcess
    /\ LiveProcesses(procs, RequestSessionId(selected_config)) # {}

\* C9: when the spawn fails in a start or reconfigure request that reached
\* it, the failure escapes as the exception, the session store, the processes
\* and the streaming status stay as they were, and the same request parses
\* and finds its session again.
C9_SpawnFailureLeavesState ==
    [][\A value \in SelectedRequests :
          ( /\ SetSelectedStreamConfiguration(value, FALSE)
            /\ IsRequest(value, {1, 4})
            /\ StartException(value, sessions) = NoException )
          => /\ raised' = "OSError"
             /\ UNCHANGED <<sessions, procs, streaming_status, status_char>>
             /\ StartException(value, sessions') = NoException
      ]_vars

\* The spawn has just failed for a Configured session while no stream runs.
C9_Witness ==
    /\ raised = "OSError"
    /\ popen_cmd # NoCmd
    /\ IsRequest(selected_config, {1, 4})
    /\ RequestSessionId(selected_config) \in DOMAIN sessions
    /\ sessions[RequestSessionId(selected_config)].process = NoProcess
    /\ streaming_status = STREAMING_STATUS.AVAILABLE

\* C10: a start request for a session id in the store that omits the width
\* and height or the max bit rate starts the stream with width 1280, height
\* 720 and bit rate 300 in place of what it omits.
C10_OmittedFieldsGetDefaults ==
    [][\A value \in SelectedRequests :
          ( /\ SetSelectedStreamConfiguration(value, TRUE)
            /\ IsRequest(value, {1})
            /\ RequestSessionId(value) \in DOMAIN sessions
            /\ OmitsVideoFields(value) )
          => /\ raised' = NoException
             /\ popen_cmd' # NoCmd
             /\ "width" \notin BoundLocals(value) =>
                    popen_cmd'.width = 1280 /\ popen_cmd'.height = 720
             /\ "video_max_bitrate" \notin BoundLocals(value) =>
                    popen_cmd'.bitrate = 300
      ]_vars

\* C11: a start or reconfigure request for a session id in the store that
\* carries the frame rate f and whose spawn is reached builds the command
\* with the frame rate min(f, 30): 30 for a requested 60, f itself for an f
\* of at most 30.
C11_CommandFrameRateIsClamped ==
    [][\A value \in SelectedRequests, popen_ok \in BOOLEAN :
          ( /\ SetSelectedStreamConfiguration(value, popen_ok)
            /\ IsRequest(value, {1, 4})
            /\ "fps" \in BoundLocals(value)
            /\ popen_cmd' # NoCmd )
          => popen_cmd'.framerate =
                IF Locals(value)["fps"] <= 30 THEN Locals(value)["fps"] ELSE 30
      ]_vars

\* C12: a setup request that lacks a required field (the session id, the
\* address block or one of its sub-fields, an SRTP block or one of its
\* sub-fields) lets no exception escape set_endpoints, leaves the session
\* store and the SetupEndpoints value as they were, and surfaces an error.
C12_IncompleteSetupFailsClosed ==
    [][\A value \in SetupRequests :
          ( /\ SetEndpoints(value)
            /\ ~HasAllSetupFields(value) )
          => /\ raised' = NoException
             /\ UNCHANGED <<sessions, setup_endpoints>>
             /\ logged' # NoLog
      ]_vars

\* C13: any two records of the session store under distinct session ids have
\* different video SSRCs and different audio SSRCs.
C13_SsrcsDoNotCollide ==
    \A s1, s2 \in DOMAIN sessions :
        s1 # s2 => /\ sessions[s1].video_ssrc # sessions[s2].video_ssrc
                   /\ sessions[s1].audio_ssrc # sessions[s2].audio_ssrc

\* C14: a setup request that has every field leaves under its session id one
\* record with the request's peer address, ports, keys and salts and without
\* a process handle, whether or not the id had a record; the records under
\* the other ids stay as they were.
C14_SetupStoresLatestRequest ==
    [][\A value \in CompleteSetupRequests :
          ( /\ SetEndpoints(value)
            /\ HasAllSetupFields(value) )
          => LET sid == value[SETUP_TYPES.SESSION_ID]
                 info == value[SETUP_TYPES.ADDRESS]
                 video == value[SETUP_TYPES.VIDEO_SRTP_PARAM]
                 audio == value[SETUP_TYPES.AUDIO_SRTP_PARAM]
             IN  /\ raised' = NoException
                 /\ DOMAIN sessions' = DOMAIN sessions \cup {sid}
                 /\ sessions'[sid].address = info[SETUP_ADDR_INFO.ADDRESS]
                 /\ PackH(sessions'[sid].video_port) = info[SETUP_ADDR_INFO.VIDEO_RTP_PORT]
                 /\ PackH(sessions'[sid].audio_port) = info[SETUP_ADDR_INFO.AUDIO_RTP_PORT]
                 /\ sessions'[sid].video_srtp_key = video[SETUP_SRTP_PARAM.MASTER_KEY]
                 /\ sessions'[sid].video_srtp_salt = video[SETUP_SRTP_PARAM.MASTER_SALT]
                 /\ sessions'[sid].audio_srtp_key = audio[SETUP_SRTP_PARAM.MASTER_KEY]
                 /\ sessions'[sid].audio_srtp_salt = audio[SETUP_SRTP_PARAM.MASTER_SALT]
                 /\ sessions'[sid].process = NoProcess
                 /\ \A other \in DOMAIN sessions \ {sid} :
                        sessions'[other] = sessions[other]
      ]_vars

\* A setup has just replaced the record of a session that had a process
\* attached by the record of a request with another address, the other
\* session's record still being in the store.
C14_Witness ==
    /\ raised = NoException
    /\ popen_cmd = NoCmd
    /\ DOMAIN sessions = SessionIds
    /\ sessions[<<17>>].address = <<58, 58, 49>>
    /\ sessions[<<17>>].video_port = 513
    /\ sessions[<<17>>].process = NoProcess
    /\ \E h \in Handles : procs[h] = [session_id |-> <<17>>, kills |-> 0]
    /\ setup_endpoints # None

\* C15: for every audio descriptor the accessory is constructed with, the
\* advertised audio blob has at least one codec entry, and when no entry of
\* the descriptor has both a known codec kind and a known sample rate it has
\* exactly one, the OPUS / variable bit rate / 24 kHz entry.
C15_NeverZeroAudioCodecs ==
    supported_audio_config # None =>
        LET entries == AdvertisedCodecs(supported_audio_config)
            codecs == audio_params.codecs
        IN  /\ Len(entries) >= 1
            /\ (\A i \in 1..Len(codecs) : ~SurvivesFiltering(codecs[i]))
                  => entries = <<FallbackEntry>>

\* C16: for an audio descriptor all of whose entries have unknown codec
\* kinds, the warnings are one skip warning per entry, in order, followed by
\* the fallback warning once, and the blob is the one OPUS / variable bit
\* rate / 24 kHz codec entry followed by the comfort-noise flag.
C16_UnknownKindsGiveFallback ==
    ( /\ supported_audio_config # None
      /\ \A i \in 1..Len(audio_params.codecs) :
            UnrecognizedKind(audio_params.codecs[i]) )
    => /\ warnings =
            [i \in 1..Len(audio_params.codecs) |->
                <<"Unsupported codec %s", audio_params.codecs[i].type>>]
            \o <<<<"Client does not support any audio codec that iOS supports.">>>>
       /\ FromBase64Str(supported_audio_config) =
            <<1, Len(FallbackEntry)>> \o FallbackEntry
            \o <<2, 1, IF "comfort_noise" \in DOMAIN audio_params
                          /\ audio_params.comfort_noise THEN 1 ELSE 0>>

\* The accessory was constructed with two codec entries of unknown kinds and
\* with comfort noise, and logged three warnings.
C16_Witness ==
    /\ supported_audio_config # None
    /\ Len(audio_params.codecs) = 2
    /\ \A i \in 1..2 : UnrecognizedKind(audio_params.codecs[i])
    /\ "comfort_noise" \in DOMAIN audio_params
    /\ audio_params.comfort_noise
    /\ Len(warnings) = 3

\* C20: for every video descriptor the accessory is constructed with, the
\* k-th attributes block of the advertised video blob encodes the k-th
\* resolution with the width and the height as 2 bytes little-endian and the
\* frame rate as 1 byte, and _start_stream's parsing of the attributes reads
\* the block without an exception.
C20_AdvertisedFrameRateIsOneByte ==
    supported_video_config # None =>
        LET attributes == AdvertisedAttributes(supported_video_config)
            A == VIDEO_ATTRIBUTES_TYPES
        IN  /\ Len(attributes) = Len(video_params.resolutions)
            /\ \A k \in 1..Len(attributes) :
                /\ attributes[k][A.IMAGE_WIDTH] = PackH(video_params.resolutions[k][1])
                /\ attributes[k][A.IMAGE_HEIGHT] = PackH(video_params.resolutions[k][2])
                /\ attributes[k][A.FRAME_RATE] = <<video_params.resolutions[k][3]>>
                /\ AttributesException(MapOf({<<VIDEO_TYPES.ATTRIBUTES, attributes[k]>>}))
                      = NoException

\* C17: in the response to a setup request that has every field, with secure
\* transport enabled the video and the audio SRTP block each carry the suite
\* AES_CM_128_HMAC_SHA1_80 with the master key and master salt the request
\* has for that stream and nothing else; with secure transport disabled both
\* blocks are the bytes of NO_SRTP.  (The quantifiers over one-element sets
\* name the decoded response and its block.)
C17_SrtpBlocksFollowFlag ==
    [][\A value \in CompleteSetupRequests :
          ( /\ SetEndpoints(value)
            /\ HasAllSetupFields(value) )
          => \A bytes \in {ResponseOf(setup_endpoints')} :
             \A response \in {TlvItems(bytes)} :
             \A block \in {SETUP_TYPES.VIDEO_SRTP_PARAM, SETUP_TYPES.AUDIO_SRTP_PARAM} :
             \A answered \in {ValuesOfType(response, block)[1]} :
                IF support_srtp
                THEN TlvItems(answered) =
                        << <<SETUP_SRTP_PARAM.CRYPTO, <<0>>>>,
                           <<SETUP_SRTP_PARAM.MASTER_KEY,
                             value[block][SETUP_SRTP_PARAM.MASTER_KEY]>>,
                           <<SETUP_SRTP_PARAM.MASTER_SALT,
                             value[block][SETUP_SRTP_PARAM.MASTER_SALT]>> >>
                ELSE answered = <<1, 1, 2, 2, 0, 3, 0>>
      ]_vars

\* With secure transport enabled, a setup request that asked for another
\* suite for its video stream has just been answered.
C17_Witness ==
    /\ support_srtp
    /\ raised = NoException
    /\ setup_endpoints # None
    /\ sessions # EmptyStore
    /\ TlvGet(TlvGet(ResponseOf(setup_endpoints), SETUP_TYPES.VIDEO_SRTP_PARAM),
              SETUP_SRTP_PARAM.MASTER_KEY) = <<21, 22>>
    /\ TlvGet(TlvGet(ResponseOf(setup_endpoints), SETUP_TYPES.AUDIO_SRTP_PARAM),
              SETUP_SRTP_PARAM.MASTER_KEY) = <<23>>

\* C18: the response to a setup request that has every field carries the
\* session id of the request, under which the record is stored, the status
\* success, the accessory's own address and address family and not the
\* peer's, and the video and audio ports of the request, which are the ports
\* of the stored record.  (The quantifiers over one-element sets name the
\* decoded response and its address block.)
C18_ResponseMatchesRecord ==
    [][\A value \in CompleteSetupRequests :
          ( /\ SetEndpoints(value)
            /\ HasAllSetupFields(value) )
          => \A bytes \in {ResponseOf(setup_endpoints')} :
             \A response \in {TlvItems(bytes)} :
             \A sid \in {ValuesOfType(response, SETUP_TYPES.SESSION_ID)[1]} :
             \A address_tlv \in {ValuesOfType(response, SETUP_TYPES.ADDRESS)[1]} :
             \A address \in {TlvItems(address_tlv)} :
                LET info == value[SETUP_TYPES.ADDRESS]
                    A == SETUP_ADDR_INFO
                IN  /\ sid = value[SETUP_TYPES.SESSION_ID]
                    /\ sid \in DOMAIN sessions'
                    /\ ValuesOfType(response, SETUP_TYPES.STATUS) = <<<<0>>>>
                    /\ ValuesOfType(address, A.ADDRESS) = <<stream_address>>
                    /\ ValuesOfType(address, A.ADDRESS) # <<info[A.ADDRESS]>>
                    /\ ValuesOfType(address, A.ADDRESS_VER) = <<stream_address_isv6>>
                    /\ ValuesOfType(address, A.VIDEO_RTP_PORT)
                          = <<info[A.VIDEO_RTP_PORT]>>
                    /\ ValuesOfType(address, A.AUDIO_RTP_PORT)
                          = <<info[A.AUDIO_RTP_PORT]>>
                    /\ info[A.VIDEO_RTP_PORT] = PackH(sessions'[sid].video_port)
                    /\ info[A.AUDIO_RTP_PORT] = PackH(sessions'[sid].audio_port)
      ]_vars

\* The setup of a second session has just been answered: the response names
\* that session and the ports of its record.
C18_Witness ==
    /\ raised = NoException
    /\ popen_cmd = NoCmd
    /\ logged = NoLog
    /\ setup_endpoints # None
    /\ DOMAIN sessions = SessionIds
    /\ TlvGet(ResponseOf(setup_endpoints), SETUP_TYPES.SESSION_ID) = <<34>>
    /\ sessions[<<34>>].process = NoProcess
    /\ sessions[<<34>>].video_port = 50000
    /\ TlvGet(TlvGet(ResponseOf(setup_endpoints), SETUP_TYPES.ADDRESS),
              SETUP_ADDR_INFO.VIDEO_RTP_PORT) = <<80, 195>>

\* C19: a selected-configuration request without the session block, or whose
\* session block has no request type, lets no exception escape, logs an
\* error, and leaves the session store, the processes, the streaming status
\* and the remembered selected configuration as they were.
C19_MalformedSelectionChangesNothing ==
    [][\A value \in SelectedRequests, popen_ok \in BOOLEAN :
          ( /\ SetSelectedStreamConfiguration(value, popen_ok)
            /\ \/ SELECTED_STREAM_CONFIGURATION_TYPES.SESSION \notin DOMAIN value
               \/ SESSION_BLOCK_TYPES.REQUEST_TYPE
                    \notin DOMAIN value[SELECTED_STREAM_CONFIGURATION_TYPES.SESSION] )
          => /\ raised' = NoException
             /\ logged' # NoLog
             /\ UNCHANGED <<sessions, procs, streaming_status, status_char,
                            selected_config>>
      ]_vars

\* C21: whenever the streaming status is Streaming, some record of the session
\* store has a process handle attached.
C21_StreamingHasAttachedProcess ==
    streaming_status = STREAMING_STATUS.STREAMING =>
        \E sid \in DOMAIN sessions : sessions[sid].process # NoProcess

\* C22: a start or reconfigure request, whether it succeeds or fails, leaves
\* the set of session ids as it was and changes no field of any record other
\* than the process handle of the session it addresses; a step that adds a
\* session id is a set_endpoints step and a step that removes one is a stop
\* request.  (A step that leaves the store as it was meets the first part
\* whatever the request, so the requests are enumerated only for the steps
\* that change the store.)
C22_OnlySetupAndStopChangeIds ==
    [][ /\ sessions' # sessions =>
              \A value \in SelectedRequests, popen_ok \in BOOLEAN :
                 ( /\ HasRequestType(value)
                   /\ RequestType(value) \in {1, 4}
                   /\ SetSelectedStreamConfiguration(value, popen_ok) )
                 => /\ DOMAIN sessions' = DOMAIN sessions
                    /\ \A sid \in DOMAIN sessions :
                          /\ [sessions'[sid] EXCEPT !.process = sessions[sid].process]
                                 = sessions[sid]
                          /\ (~HasSessionId(value) \/ sid # RequestSessionId(value))
                                 => sessions'[sid] = sessions[sid]
        /\ DOMAIN sessions' \ DOMAIN sessions # {}
              => \E value \in SetupRequests : SetEndpoints(value)
        /\ DOMAIN sessions \ DOMAIN sessions' # {}
              => \E value \in SelectedRequests :
                    /\ IsRequest(value, {0})
                    /\ SetSelectedStreamConfiguration(value, TRUE)
      ]_vars

\* A start or reconfigure request has just attached a process to the session
\* it addresses while the other session's record is in the store with no
\* process attached.
C22_Witness ==
    /\ HasRequestType(selected_config)
    /\ RequestType(selected_config) \in {1, 4}
    /\ HasSessionId(selected_config)
    /\ raised = NoException
    /\ popen_cmd # NoCmd
    /\ DOMAIN sessions = SessionIds
    /\ sessions[RequestSessionId(selected_config)].process # NoProcess
    /\ \A sid \in SessionIds \ {RequestSessionId(selected_config)} :
          sessions[sid].process = NoProcess

====
